---------------------------- MODULE Spec2Model ----------------------------
(***************************************************************************)
(* Model of streamlit_email_forensics.py: the archive decoder              *)
(* (parse_zip_file / parse_msg_files), the filter loop of the page script  *)
(* and the attachment splitter (create_split_zips).                        *)
(*                                                                         *)
(* Text is a sequence of one-character strings, so that formatting a key,  *)
(* splitting it again, lower-casing and substring search are computed.     *)
(* A timestamp is a number of ticks since the epoch, TicksPerDay ticks to  *)
(* the calendar day.                                                       *)
(***************************************************************************)
EXTENDS Integers, Sequences, FiniteSets, TLC

\* ------------------------------------------------------------------ bounds
\* .msg entries discovered in one archive
MaxEntries == 2
\* attachments carried by one .msg container
MaxAtts == 2
\* messages handed to the filter loop
MaxMsgs == 2
\* resolution of a timestamp within one calendar day
TicksPerDay == 2
\* days between the default start date and the day the page runs
TodayOffset == 1
\* attachments handed to create_split_zips
MaxItems == 3
\* largest attachment length
MaxSize == 3
\* largest size limit
MaxLimit == 2

\* ------------------------------------------------------------------ values
\* An optional value is a sequence of length at most one: None is Python's
\* None (or a key the dict does not hold), Some(v) a value that is there.
None == <<>>
Some(v) == <<v>>
\* no container is open
NoMsg == "NoMsg"

\* datetime(2000, 1, 1).date(), in days since 1970-01-01
DefaultStartDay == 10957
\* datetime.today().date()
Today == DefaultStartDay + TodayOffset

DateTime(day, tick) == day * TicksPerDay + tick
\* datetime.date(): the calendar day of a timestamp
DateOf(dt) == dt \div TicksPerDay
\* 1970-01-01, the day of timestamp zero
EpochDay == DateOf(DateTime(0, 0))

\* ------------------------------------------------------------------- text
Digits == <<"0", "1", "2", "3", "4", "5", "6", "7", "8", "9">>

RECURSIVE DecStr(_)
\* str(n) of a natural number
DecStr(n) == IF n < 10 THEN <<Digits[n + 1]>>
             ELSE DecStr(n \div 10) \o <<Digits[(n % 10) + 1]>>

DigitVal(c) == CHOOSE d \in 0..9 : Digits[d + 1] = c

RECURSIVE ParseDec(_)
\* int(s) of a non-empty string of digits
ParseDec(s) == IF Len(s) = 1 THEN DigitVal(s[1])
               ELSE 10 * ParseDec(SubSeq(s, 1, Len(s) - 1)) + DigitVal(s[Len(s)])

\* index of the first "_" of s (Len(s) + 1 when there is none)
FirstUnderscore(s) ==
    IF \E i \in 1..Len(s) : s[i] = "_"
    THEN CHOOSE i \in 1..Len(s) : s[i] = "_" /\ \A j \in 1..(i - 1) : s[j] # "_"
    ELSE Len(s) + 1

\* key.split("_", 1)[0] and key.split("_", 1)[1]
SplitHead(key) == SubSeq(key, 1, FirstUnderscore(key) - 1)
SplitName(key) == SubSeq(key, FirstUnderscore(key) + 1, Len(key))

\* f"{n}_{fname}"
Key(n, fname) == DecStr(n) \o <<"_">> \o fname

LowerChar(c) == CASE c = "A" -> "a"
                  [] c = "B" -> "b"
                  [] OTHER -> c
\* str.lower()
Lower(s) == [i \in 1..Len(s) |-> LowerChar(s[i])]

\* needle in hay
Contains(needle, hay) ==
    \E i \in 0..(Len(hay) - Len(needle)) : SubSeq(hay, i + 1, i + Len(needle)) = needle

\* ------------------------------------------------------------------ state
VARIABLES
    pc,                   \* where the program is
    exc,                  \* the exception that left the decoder, "none" if none
    tmpdir,               \* the TemporaryDirectory of parse_zip_file exists
    tmp_files,            \* the NamedTemporaryFile(delete=False) files that exist
    messages,             \* the list parse_msg_files builds; the filter's input
    attachments_storage,  \* key -> bytes
    msg,                  \* the container being decoded, NoMsg between entries
    att_i,                \* the next attachment of msg to register
    criteria,             \* the sidebar inputs
    filtered,             \* the filter's output so far
    fpos,                 \* the next message the filter loop looks at
    items,                \* list(attachments_storage.items()) of create_split_zips
    size_limit,
    zips,                 \* the shards emitted so far
    zf,                   \* the entries written to the current ZipFile
    current_size,
    part_index,
    ipos                  \* the next item of the loop

decVars == <<exc, tmpdir, tmp_files, attachments_storage, msg, att_i>>
filVars == <<criteria, filtered, fpos>>
splVars == <<items, size_limit, zips, zf, current_size, part_index, ipos>>
vars == <<pc, messages, decVars, filVars, splVars>>

DecIdle ==
    /\ exc = "none" /\ tmpdir = FALSE /\ tmp_files = {}
    /\ attachments_storage = <<>> /\ msg = NoMsg /\ att_i = 1
FilIdle == criteria = NoMsg /\ filtered = <<>> /\ fpos = 1
SplIdle ==
    /\ items = <<>> /\ size_limit = 1 /\ zips = <<>> /\ zf = <<>>
    /\ current_size = 0 /\ part_index = 1 /\ ipos = 1

\* ------------------------------------------------------- decoder: inputs
FileNames == {<<"a">>, <<"1", "_", "a">>}
\* what an attachment dict may hold under "filename"
FileNameProps == {Some(f) : f \in FileNames} \cup {None}

RECURSIVE SeqsUpTo(_, _)
\* the sequences over S of length at most n
SeqsUpTo(S, n) ==
    IF n = 0 THEN {<<>>}
    ELSE LET shorter == SeqsUpTo(S, n - 1)
         IN  shorter \cup {Append(s, x) : s \in shorter, x \in S}

\* the timestamp the date properties of the pool carry
SomeTime == DateTime(DefaultStartDay, 1)
\* a value of the DeliveryTime or SentOn property
DateProps == [kind : {"absent", "empty_str", "iso_str", "bad_str", "datetime", "number"},
              value : {SomeTime}]
NoDateProp == [kind |-> "absent", value |-> SomeTime]

\* a .msg entry of the archive
Containers ==
    [openable : {FALSE}, DeliveryTime : {NoDateProp},
     SentOn : {NoDateProp}, attachments : {<<>>}]
    \cup
    [openable : {TRUE}, DeliveryTime : DateProps, SentOn : DateProps,
     attachments : SeqsUpTo([filename : FileNameProps], MaxAtts)]

\* ---------------------------------------------------- decoder: helpers
\* bool(v) of a date property value
Truthy(p) == p.kind \notin {"absent", "empty_str"}

\* props.get("DeliveryTime") or props.get("SentOn") or None, then the two
\* isinstance tests
ParseDate(c) ==
    LET raw == IF Truthy(c.DeliveryTime) THEN c.DeliveryTime
               ELSE IF Truthy(c.SentOn) THEN c.SentOn
               ELSE NoDateProp
    IN  IF raw.kind \in {"iso_str", "datetime"} THEN Some(raw.value) ELSE None

\* att.get("filename", "attachment")
DefaultFileName == <<"a", "t", "t", "a", "c", "h", "m", "e", "n", "t">>
GetFileName(att) == IF att.filename = None THEN DefaultFileName ELSE att.filename[1]

\* the key of line 83, with i the position of the attachment in its message
StoreKeyByIndex(storage, i, fname) == Key(i, fname)
StoreKey(storage, i, fname) == Key(Cardinality(DOMAIN storage), fname)

\* storage[key] = data
Put(storage, key, data) ==
    [k \in (DOMAIN storage) \cup {key} |-> IF k = key THEN data ELSE storage[k]]

\* the bytes of attachment i of entry n of the archive
Bytes(n, i) == [entry |-> n, att |-> i]

\* the list comprehension of lines 86-87
AttachmentList(atts) ==
    [i \in 1..Len(atts) |->
        [filename |-> atts[i].filename[1], key |-> Key(i - 1, atts[i].filename[1])]]

\* -------------------------------------------------------- decoder: steps
\* parse_zip_file up to the call of parse_msg_files: the archive is written
\* to a fresh temporary directory and extracted; a corrupt archive raises and
\* the with statement removes the directory.
ZipExtract ==
    /\ pc = "start"
    /\ \E ok \in BOOLEAN :
         IF ok
         THEN pc' = "loop" /\ tmpdir' = TRUE /\ exc' = exc
         ELSE pc' = "raised" /\ tmpdir' = FALSE /\ exc' = "BadZipFile"
    /\ UNCHANGED <<messages, tmp_files, attachments_storage, msg, att_i>>
    /\ UNCHANGED <<filVars, splVars>>

\* One entry, lines 33-77: the bytes go to a temporary .msg file that is not
\* deleted on close, the container is opened and its properties are read.
MsgOpen ==
    /\ pc = "loop"
    /\ Len(messages) < MaxEntries
    /\ \E c \in Containers :
         /\ tmp_files' = tmp_files \cup {Len(messages) + 1}
         /\ IF c.openable
            THEN /\ msg' = [date |-> ParseDate(c), attachments |-> c.attachments]
                 /\ pc' = "atts"
                 /\ UNCHANGED <<exc, tmpdir>>
            ELSE /\ pc' = "raised"
                 /\ exc' = "MsgOpenError"
                 /\ tmpdir' = FALSE
                 /\ msg' = msg
    /\ att_i' = 1
    /\ UNCHANGED <<messages, attachments_storage, filVars, splVars>>

\* One turn of the loop of lines 80-84.
MsgRegister ==
    /\ pc = "atts"
    /\ att_i <= Len(msg.attachments)
    /\ LET fname == GetFileName(msg.attachments[att_i])
           key == StoreKey(attachments_storage, att_i - 1, fname)
       IN  attachments_storage' =
               Put(attachments_storage, key, Bytes(Len(messages) + 1, att_i))
    /\ att_i' = att_i + 1
    /\ UNCHANGED <<pc, messages, exc, tmpdir, tmp_files, msg, filVars, splVars>>

\* Lines 86-101: the attachment list is built with att["filename"], which
\* raises KeyError for an attachment without that key; otherwise the message
\* is appended, the container closed and the temporary file removed.
MsgEmit ==
    /\ pc = "atts"
    /\ att_i > Len(msg.attachments)
    /\ IF \E i \in 1..Len(msg.attachments) : msg.attachments[i].filename = None
       THEN /\ pc' = "raised"
            /\ exc' = "KeyError"
            /\ tmpdir' = FALSE
            /\ UNCHANGED <<messages, tmp_files, msg>>
       ELSE /\ messages' = Append(messages,
                   [date |-> msg.date, attachments |-> AttachmentList(msg.attachments)])
            /\ tmp_files' = tmp_files \ {Len(messages) + 1}
            /\ msg' = NoMsg
            /\ pc' = "loop"
            /\ UNCHANGED <<exc, tmpdir>>
    /\ UNCHANGED <<attachments_storage, att_i, filVars, splVars>>

\* Line 103 and the end of the with statement of parse_zip_file.
ParseReturn ==
    /\ pc = "loop"
    /\ pc' = "returned"
    /\ tmpdir' = FALSE
    /\ UNCHANGED <<messages, exc, tmp_files, attachments_storage, msg, att_i>>
    /\ UNCHANGED <<filVars, splVars>>

Init ==
    /\ pc = "start"
    /\ messages = <<>>
    /\ DecIdle /\ FilIdle /\ SplIdle

Next == ZipExtract \/ MsgOpen \/ MsgRegister \/ MsgEmit \/ ParseReturn

Spec == Init /\ [][Next]_vars

\* ---------------------------------------------------------- filter: inputs
TextFields == {"subject", "sender", "recipients", "emails_in_body", "phones_in_body", "body"}
\* the text a field of a message holds, and the text typed into a filter box
FieldText == <<"A", "b">>
FilterText == <<"B">>
Empty == <<>>

\* the texts of a message: at most one field is not empty
MsgTexts ==
    {t \in [TextFields -> {Empty, FieldText}] :
        Cardinality({f \in TextFields : t[f] # Empty}) <= 1}

\* the date of a message: None, or a timestamp on one of four days
MsgDates ==
    {None, Some(DateTime(EpochDay, 0))}
    \cup {Some(DateTime(d, TicksPerDay - 1)) : d \in {DefaultStartDay - 1, DefaultStartDay, Today}}

\* the attachment list of a message: empty, or one (filename, key) pair
\* (the decoder's steps above carry only the date and the attachments of a
\* message; the filter reads the text fields as well)
MsgAttachments == {<<>>, <<[filename |-> <<"a">>, key |-> Key(0, <<"a">>)]>>}

MsgPool ==
    {[date |-> d, subject |-> t["subject"], sender |-> t["sender"],
      recipients |-> t["recipients"], emails_in_body |-> t["emails_in_body"],
      phones_in_body |-> t["phones_in_body"], body |-> t["body"], attachments |-> a] :
        t \in MsgTexts, d \in MsgDates, a \in MsgAttachments}

FilterBoxes == {"subj_filter", "sender_filter", "rec_filter", "email_filter",
                "phone_filter", "body_filter"}
\* the text inputs of the sidebar: at most one box is filled
BoxTexts ==
    {t \in [FilterBoxes -> {Empty, FilterText}] :
        Cardinality({f \in FilterBoxes : t[f] # Empty}) <= 1}

\* the values of the two date inputs when the user leaves them alone
DefaultStart == DefaultStartDay
DefaultEnd == Today

CriteriaPool ==
    {[subj_filter |-> t["subj_filter"], sender_filter |-> t["sender_filter"],
      rec_filter |-> t["rec_filter"], email_filter |-> t["email_filter"],
      phone_filter |-> t["phone_filter"], body_filter |-> t["body_filter"],
      has_attach |-> h, start_date |-> s, end_date |-> e] :
        t \in BoxTexts, h \in BOOLEAN,
        s \in {EpochDay, DefaultStart}, e \in {DefaultStartDay, DefaultEnd}}

\* ------------------------------------------------------------ filter: steps
\* filter_text and filter_text.lower() not in field.lower()
Rejects(filter_text, field) ==
    filter_text # Empty /\ ~Contains(Lower(filter_text), Lower(field))

\* The body of the loop of lines 359-380: TRUE when no continue is taken.
Passes(m, c) ==
    /\ ~Rejects(c.subj_filter, m.subject)
    /\ ~Rejects(c.sender_filter, m.sender)
    /\ ~(c.rec_filter # Empty
            /\ ~Contains(Lower(c.rec_filter), Lower(m.sender))
            /\ ~Contains(Lower(c.rec_filter), Lower(m.recipients)))
    /\ ~Rejects(c.email_filter, m.emails_in_body)
    /\ ~Rejects(c.phone_filter, m.phones_in_body)
    /\ ~Rejects(c.body_filter, m.body)
    /\ ~(c.has_attach /\ Len(m.attachments) = 0)
    /\ ~(m.date # None
            /\ (DateOf(m.date[1]) < c.start_date \/ DateOf(m.date[1]) > c.end_date))

\* One turn of the loop of lines 359-380.
FilterStep ==
    /\ pc = "filter"
    /\ fpos <= Len(messages)
    /\ filtered' = IF Passes(messages[fpos], criteria)
                   THEN Append(filtered, messages[fpos])
                   ELSE filtered
    /\ fpos' = fpos + 1
    /\ UNCHANGED <<pc, messages, criteria, decVars, splVars>>

InitFilter ==
    /\ pc = "filter"
    /\ messages \in SeqsUpTo(MsgPool, MaxMsgs)
    /\ criteria \in CriteriaPool
    /\ filtered = <<>>
    /\ fpos = 1
    /\ DecIdle /\ SplIdle

NextFilter == FilterStep

SpecFilter == InitFilter /\ [][NextFilter]_vars

\* the loop of lines 359-380 has run to its end
FilterDone == pc = "filter" /\ fpos > Len(messages)

\* --------------------------------------------------------- splitter: inputs
\* the (key, bytes) pairs of the dict, in insertion order; the bytes are
\* modelled by their length, the keys are those of a dict and so distinct
ItemsPool ==
    {[i \in 1..Len(q) |-> [key |-> Key(i - 1, q[i].name), size |-> q[i].size]] :
        q \in SeqsUpTo([name : FileNames, size : 0..MaxSize], MaxItems)}

\* ---------------------------------------------------------- splitter: steps
\* f"attachments_part{part_index}.zip"
PartName(n) ==
    <<"a", "t", "t", "a", "c", "h", "m", "e", "n", "t", "s", "_", "p", "a", "r", "t">>
        \o DecStr(n) \o <<".", "z", "i", "p">>

\* zips.append((name, finalize_zip(zf, current_zip_file)))
Finalize(shards, n, entries) == Append(shards, [name |-> PartName(n), entries |-> entries])

\* the test of line 283
MustRotate(size, file_size, limit) == size + file_size > limit /\ size > 0

\* One turn of the loop of lines 279-293.
SplitStep ==
    /\ pc = "split"
    /\ ipos <= Len(items)
    /\ LET item == items[ipos]
           entry == [fname |-> SplitName(item.key), size |-> item.size]
       IN  IF MustRotate(current_size, item.size, size_limit)
           THEN /\ zips' = Finalize(zips, part_index, zf)
                /\ part_index' = part_index + 1
                /\ zf' = <<entry>>
                /\ current_size' = item.size
           ELSE /\ zf' = Append(zf, entry)
                /\ current_size' = current_size + item.size
                /\ UNCHANGED <<zips, part_index>>
    /\ ipos' = ipos + 1
    /\ UNCHANGED <<pc, messages, items, size_limit, decVars, filVars>>

\* Lines 295-300: a ZipFile object is always true, so the last archive is
\* finalized whatever it holds.
SplitReturn ==
    /\ pc = "split"
    /\ ipos > Len(items)
    /\ zips' = Finalize(zips, part_index, zf)
    /\ pc' = "split_done"
    /\ UNCHANGED <<messages, items, size_limit, zf, current_size, part_index, ipos>>
    /\ UNCHANGED <<decVars, filVars>>

InitSplit ==
    /\ pc = "split"
    /\ messages = <<>>
    /\ items \in ItemsPool
    /\ size_limit \in 1..MaxLimit
    /\ zips = <<>> /\ zf = <<>> /\ current_size = 0 /\ part_index = 1 /\ ipos = 1
    /\ DecIdle /\ FilIdle

NextSplit == SplitStep \/ SplitReturn

SpecSplit == InitSplit /\ [][NextSplit]_vars

\* ================================================================== claims

\* ----------------------------------------------------------------- decoder
\* the decoder is inside the attachment code of a container: lines 80-87
InMessage == pc = "atts" \/ (pc = "raised" /\ exc = "KeyError")

\* the bytes handed to line 84 so far, over all containers of the session
RegisteredBytes ==
    UNION {{Bytes(n, i) : i \in 1..Len(messages[n].attachments)} : n \in 1..Len(messages)}
    \cup (IF InMessage
          THEN {Bytes(Len(messages) + 1, i) : i \in 1..(att_i - 1)}
          ELSE {})

\* the counter a storage key starts with
CounterOf(key) == ParseDec(SplitHead(key))

\* C2: once the decoder has returned, the storage key of every attachment
\* reference of every message is a key of the Attachment Store, and the store
\* holds under it the bytes of that attachment of that message.
C2_RefsResolve ==
    pc = "returned" =>
        \A n \in 1..Len(messages) :
            \A i \in 1..Len(messages[n].attachments) :
                LET key == messages[n].attachments[i].key
                IN  /\ key \in DOMAIN attachments_storage
                    /\ attachments_storage[key] = Bytes(n, i)

\* C3: the date of every emitted message is a timestamp, never absent (a
\* missing or unparseable source date gives the epoch-zero sentinel).
C3_DateNeverAbsent ==
    pc \in {"loop", "atts", "returned", "raised"} =>
        \A n \in 1..Len(messages) : messages[n].date # None

\* C4: when the archive decode has finished, normally or by an exception, no
\* scratch directory and no temporary .msg file is left.
C4_ScratchReleased ==
    pc \in {"returned", "raised"} => (tmpdir = FALSE /\ tmp_files = {})

\* C6: no exception leaves the decoder from a container that was opened: the
\* only failures that propagate are a corrupt archive and a container that
\* cannot be opened.
C6_FieldFailureIsolated ==
    pc = "raised" => exc \in {"BadZipFile", "MsgOpenError"}

\* C7: every registration adds a new key to the Attachment Store: the store
\* holds one entry per attachment registered in the session, each attachment's
\* bytes are in it, and its keys start with pairwise different counters below
\* the number of registrations.
C7_UniqueKeys ==
    pc \in {"start", "loop", "atts", "returned", "raised"} =>
        /\ Cardinality(DOMAIN attachments_storage) = Cardinality(RegisteredBytes)
        /\ {attachments_storage[k] : k \in DOMAIN attachments_storage} = RegisteredBytes
        /\ \A k \in DOMAIN attachments_storage :
                CounterOf(k) < Cardinality(RegisteredBytes)
        /\ Cardinality({CounterOf(k) : k \in DOMAIN attachments_storage})
                = Cardinality(DOMAIN attachments_storage)

\* Two decoded messages carry one attachment each, under the same filename,
\* and the store holds two entries.
C7_Witness ==
    /\ pc = "returned"
    /\ Len(messages) = 2
    /\ Len(messages[1].attachments) = 1
    /\ Len(messages[2].attachments) = 1
    /\ messages[1].attachments[1].filename = messages[2].attachments[1].filename
    /\ Cardinality(DOMAIN attachments_storage) = 2

\* ------------------------------------------------------------------ filter
\* Sentinel, CalendarDate, TextOk, Satisfies and NoCriteria state the filter
\* as the specification describes it; the code's loop body is Passes.
\* the fixed epoch-zero timestamp
Sentinel == DateTime(EpochDay, 0)

\* the calendar date of a message whose date, when unknown, is the sentinel
CalendarDate(m) == IF m.date = None THEN DateOf(Sentinel) ELSE DateOf(m.date[1])

\* a text criterion: empty, or a case-insensitive substring of the field
TextOk(filter_text, field) ==
    filter_text = Empty \/ Contains(Lower(filter_text), Lower(field))

\* the conjunction of the criteria of a FilterCriteria
Satisfies(m, c) ==
    /\ TextOk(c.subj_filter, m.subject)
    /\ TextOk(c.sender_filter, m.sender)
    /\ (TextOk(c.rec_filter, m.sender) \/ TextOk(c.rec_filter, m.recipients))
    /\ TextOk(c.email_filter, m.emails_in_body)
    /\ TextOk(c.phone_filter, m.phones_in_body)
    /\ TextOk(c.body_filter, m.body)
    /\ (c.has_attach => Len(m.attachments) > 0)
    /\ c.start_date <= CalendarDate(m)
    /\ CalendarDate(m) <= c.end_date

\* C5: the filter output is the subsequence of the input, in input order, of
\* exactly the messages that satisfy every non-empty criterion, the date test
\* being inclusive at both ends on the calendar date.
C5_FilterIsExactSubsequence ==
    FilterDone =>
        LET Keep(m) == Satisfies(m, criteria)
        IN  filtered = SelectSeq(messages, Keep)

\* C8: a message of unknown date is in the filter output only if the calendar
\* date of the sentinel lies within the date range.
C8_UnknownDateExcluded ==
    FilterDone =>
        \A n \in 1..Len(filtered) :
            filtered[n].date = None =>
                (criteria.start_date <= DateOf(Sentinel)
                    /\ DateOf(Sentinel) <= criteria.end_date)

\* every text box empty, the checkbox off, both date inputs left alone
NoCriteria(c) ==
    /\ \A f \in FilterBoxes : c[f] = Empty
    /\ ~c.has_attach
    /\ c.start_date = DefaultStart
    /\ c.end_date = DefaultEnd

\* C9: with no criterion given, the filter output is the input sequence.
C9_EmptyCriteriaIdentity ==
    (FilterDone /\ NoCriteria(criteria)) => filtered = messages

\* ---------------------------------------------------------------- splitter
RECURSIVE SumSizes(_)
SumSizes(entries) ==
    IF entries = <<>> THEN 0 ELSE entries[1].size + SumSizes(Tail(entries))

RECURSIVE Concat(_)
\* the entries of the shards, in shard order then item order
Concat(shards) ==
    IF shards = <<>> THEN <<>> ELSE shards[1].entries \o Concat(Tail(shards))

\* the input items as (filename, length) pairs
InputEntries == [i \in 1..Len(items) |-> [fname |-> SplitName(items[i].key), size |-> items[i].size]]

\* C1: (a) every shard is within the limit unless it holds exactly one item,
\* which is itself over the limit; (b) the shards, concatenated, are the input
\* items, each once and in input order.
C1_ShardsBoundedAndComplete ==
    pc = "split_done" =>
        /\ \A n \in 1..Len(zips) :
                \/ SumSizes(zips[n].entries) <= size_limit
                \/ (Len(zips[n].entries) = 1 /\ zips[n].entries[1].size > size_limit)
        /\ Concat(zips) = InputEntries

\* C10: every emitted shard holds at least one item, and an empty input gives
\* no shard.
C10_NoEmptyShard ==
    pc \in {"split", "split_done"} =>
        /\ \A n \in 1..Len(zips) : Len(zips[n].entries) >= 1
        /\ (pc = "split_done" /\ items = <<>>) => zips = <<>>

=============================================================================
